---- MODULE Spec2Model ----
(***************************************************************************)
(* Drag-and-drop engine of blockblast_99 (frontend/src/lib/dnd).           *)
(*                                                                         *)
(* The engine is a React context provider (the coordinator), one           *)
(* useDraggable hook per draggable item and one useDropZone hook per drop  *)
(* target.  Every action below is one input event (or one component        *)
(* lifecycle step).  Within an event the document listeners run one after  *)
(* the other; after each listener React commits the queued state updates:  *)
(* it re-renders (refs that mirror state are refreshed) and runs the       *)
(* effects whose dependencies changed.  Settle models that commit.         *)
(***************************************************************************)
EXTENDS Integers, Sequences, FiniteSets, TLC

\* ------------------------------------------------------------------------
\* Bounds and program constants
\* ------------------------------------------------------------------------

\* largest number of delay timers one controller may have scheduled
MaxTimers == 2

\* DEFAULT_ACTIVATION.tolerance and the "tolerance = 5" destructuring default
DefaultTolerance == 5

\* the activation values used by the configured draggables: distance in
\* pixels and delay in milliseconds
CfgDistance == 10
CfgDelay == 300

Draggables == {"b1", "b2"}
Targets == {"t1", "t2"}

Pt(x, y) == [x |-> x, y |-> y]

\* null for Point | null
NullPoint == Pt(0 - 1, 0 - 1)

\* null for DragData | null
NoData == [id |-> "null", type |-> "null", payload |-> "null"]

\* null for DropZoneId | null, and for HTMLElement | null
Null == "null"

\* pointer samples delivered by the input device
PointerPositions ==
  {Pt(0, 0), Pt(3, 0), Pt(CfgDistance - 1, 0), Pt(CfgDistance, 0)}

\* where a pointer/touch pick-up can land on a draggable element
PickPositions == {Pt(0, 0)}

\* bounding rectangles a drop target's element can have
RectA == [left |-> 0, top |-> 0, right |-> 4, bottom |-> 4, width |-> 4, height |-> 4]
RectB == [left |-> 3, top |-> 0, right |-> 9, bottom |-> 4, width |-> 6, height |-> 4]
Regions == {RectA, RectB}

\* bounding rectangle of every draggable element
DraggableRect == [left |-> 0, top |-> 0, right |-> 6, bottom |-> 0, width |-> 6, height |-> 0]

\* DOM elements a drop target's ref callback can be given
Elements == {"e1"}

\* largest coordinate of the rectangles and points handed to the geometry
\* functions
MaxCoord == 2
Coords == 0..MaxCoord

\* the Rect getRect returns for a bounding box with these four edges
Rect(l, t, r, b) ==
  [left |-> l, top |-> t, right |-> r, bottom |-> b,
   width |-> r - l, height |-> b - t]

\* bounding boxes: left <= right and top <= bottom
GeomRects ==
  {Rect(q[1], q[2], q[3], q[4]) :
     q \in {e \in Coords \X Coords \X Coords \X Coords :
              e[1] <= e[3] /\ e[2] <= e[4]}}

GeomPoints == {Pt(x, y) : x \in Coords, y \in Coords}

\* the DraggableConfig of each item: type and payload
DragTypeOf(c) == IF c = "b1" THEN "block" ELSE "other"
PayloadOf(c) == IF c = "b1" THEN "p1" ELSE "p2"
DragDataOf(c) == [id |-> c, type |-> DragTypeOf(c), payload |-> PayloadOf(c)]

\* the DropZoneConfig.accept of each target
AcceptOf(t) == IF t = "t1" THEN {"block"} ELSE {"block", "other"}

\* ActivationConstraints after the destructuring defaults are applied
DEFAULT_ACTIVATION == [distance |-> 0, delay |-> 0, tolerance |-> DefaultTolerance]
ActDistance == [distance |-> CfgDistance, delay |-> 0, tolerance |-> DefaultTolerance]
ActDelay == [distance |-> 0, delay |-> CfgDelay, tolerance |-> DefaultTolerance]
ActBoth == [distance |-> CfgDistance, delay |-> CfgDelay, tolerance |-> DefaultTolerance]
Activations == {DEFAULT_ACTIVATION, ActDistance, ActDelay, ActBoth}

VARIABLES
  dragState,    \* the provider's DragState (React state, as last committed)
  ctl,          \* per draggable: the useDraggable instance
  timers,       \* per draggable: the scheduled setTimeout closures
  zone,         \* per target: the useDropZone instance and its element
  dropZones,    \* the provider's dropZonesRef registry: id -> element
  escListening, \* the provider's Escape keydown listener is attached
  activation,   \* per draggable: config.activation (fixed after Init)
  zoneOrder,    \* order in which React runs the targets' effects
  event,        \* the input event of the last step
  log,          \* calls and callbacks made during the last step, in order
  hist,         \* per target: what happened to it during the current drag
  tally,        \* callbacks counted over one gesture, where tally.on
  provider,     \* a DnDProvider encloses the components (the context is set)
  geom          \* rectangles and point given to utils.ts, and its answers

vars == <<dragState, ctl, timers, zone, dropZones, escListening, activation,
          zoneOrder, event, log, hist, tally, provider, geom>>

\* ------------------------------------------------------------------------
\* types.ts
\* ------------------------------------------------------------------------

INITIAL_DRAG_STATE ==
  [phase |-> "idle", isDragging |-> FALSE, data |-> NoData,
   position |-> NullPoint, initialPosition |-> NullPoint,
   offset |-> Pt(0, 0), delta |-> Pt(0, 0), overDropZoneId |-> Null]

INITIAL_DROP_STATE == [isOver |-> FALSE, canDrop |-> FALSE, dragData |-> NoData]

\* ------------------------------------------------------------------------
\* utils.ts
\* ------------------------------------------------------------------------

\* the square of distance(a, b); distance itself is its square root
distance2(a, b) == (b.x - a.x) * (b.x - a.x) + (b.y - a.y) * (b.y - a.y)

\* distance(a, b) >= d and distance(a, b) > d for a non-negative integer d
distanceGE(a, b, d) == distance2(a, b) >= d * d
distanceGT(a, b, d) == distance2(a, b) > d * d

delta(from, to) == Pt(to.x - from.x, to.y - from.y)

\* a hit test that leaves the edges of the rectangle out
isPointInRectOpen(pt, rect) ==
  /\ pt.x > rect.left
  /\ pt.x < rect.right
  /\ pt.y > rect.top
  /\ pt.y < rect.bottom

isPointInRect(pt, rect) ==
  /\ pt.x >= rect.left
  /\ pt.x <= rect.right
  /\ pt.y >= rect.top
  /\ pt.y <= rect.bottom

Max(m, n) == IF m >= n THEN m ELSE n

Min(m, n) == IF m <= n THEN m ELSE n

rectsIntersect(a, b) ==
  ~(\/ a.right < b.left
    \/ a.left > b.right
    \/ a.bottom < b.top
    \/ a.top > b.bottom)

\* an intersectionArea whose overlaps are not cut off at 0
intersectionAreaUnclamped(a, b) ==
  LET xOverlap == Min(a.right, b.right) - Max(a.left, b.left)
      yOverlap == Min(a.bottom, b.bottom) - Max(a.top, b.top)
  IN xOverlap * yOverlap

intersectionArea(a, b) ==
  LET xOverlap == Max(0, Min(a.right, b.right) - Max(a.left, b.left))
      yOverlap == Max(0, Min(a.bottom, b.bottom) - Max(a.top, b.top))
  IN xOverlap * yOverlap

\* the greatest common divisor of m >= 0 and n > 0
RECURSIVE GCD(_, _)
GCD(m, n) == IF m = 0 THEN n ELSE GCD(n % m, m)

\* the quotient m / n of two integers, n > 0, as the number it denotes: a
\* fraction in lowest terms
Quotient(m, n) == [num |-> m \div GCD(m, n), den |-> n \div GCD(m, n)]

intersectionRatio(a, b) ==
  LET area == intersectionArea(a, b)
      aArea == a.width * a.height
  IN IF aArea > 0 THEN Quotient(area, aArea) ELSE Quotient(0, 1)

\* no geometry function was called
NoGeom ==
  [op |-> "none", a |-> Rect(0, 0, 0, 0), b |-> Rect(0, 0, 0, 0),
   pt |-> NullPoint, area |-> 0, swapped |-> 0, ratio |-> Quotient(0, 1),
   intersects |-> FALSE, inside |-> FALSE]

\* ------------------------------------------------------------------------
\* Log entries
\* ------------------------------------------------------------------------

Entry(op, who, arg, pos, flag) ==
  [op |-> op, who |-> who, arg |-> arg, pos |-> pos, flag |-> flag]

Emit(s, e) == [s EXCEPT !.log = Append(@, e)]

\* ------------------------------------------------------------------------
\* context.tsx: the coordinator.  s.drag is the state with every queued
\* setDragState applied; s.rendered is the state of the last render, which
\* is what stateRef.current and the hooks' closures hold.
\* ------------------------------------------------------------------------

\* a startDrag that parks the coordinator in a pending phase
startDragPending(s, data, position, offset) ==
  LET newState == [phase |-> "pending", isDragging |-> TRUE, data |-> data,
                   position |-> position, initialPosition |-> position,
                   offset |-> offset, delta |-> Pt(0, 0),
                   overDropZoneId |-> Null]
      s1 == Emit(s, Entry("startDrag", data.id, Null, position, FALSE))
      s2 == [s1 EXCEPT !.drag = newState, !.dirty = TRUE]
  IN Emit(s2, Entry("drag-start", data.id, Null, position, FALSE))

startDrag(s, data, position, offset) ==
  LET newState == [phase |-> "dragging", isDragging |-> TRUE, data |-> data,
                   position |-> position, initialPosition |-> position,
                   offset |-> offset, delta |-> Pt(0, 0),
                   overDropZoneId |-> Null]
      s1 == Emit(s, Entry("startDrag", data.id, Null, position, FALSE))
      s2 == [s1 EXCEPT !.drag = newState, !.dirty = TRUE]
  IN Emit(s2, Entry("drag-start", data.id, Null, position, FALSE))

\* an updateDrag that stores the position and keeps the old delta
updateDragKeepsDelta(s, who, position) ==
  LET prev == s.drag
      s1 == Emit(s, Entry("updateDrag", who, Null, position, FALSE))
  IN IF ~prev.isDragging \/ prev.initialPosition = NullPoint
     THEN s1
     ELSE LET s2 == IF prev.data # NoData
                    THEN Emit(s1, Entry("drag-move", prev.data.id, Null,
                                        position, FALSE))
                    ELSE s1
          IN [s2 EXCEPT !.drag = [prev EXCEPT !.position = position],
                        !.dirty = TRUE]

\* an updateDrag whose delta is measured from the previous pointer position
updateDragRelative(s, who, position) ==
  LET prev == s.drag
      s1 == Emit(s, Entry("updateDrag", who, Null, position, FALSE))
  IN IF ~prev.isDragging \/ prev.initialPosition = NullPoint
     THEN s1
     ELSE LET newDelta == delta(prev.position, position)
              s2 == IF prev.data # NoData
                    THEN Emit(s1, Entry("drag-move", prev.data.id, Null,
                                        position, FALSE))
                    ELSE s1
          IN [s2 EXCEPT !.drag = [prev EXCEPT !.position = position,
                                              !.delta = newDelta],
                        !.dirty = TRUE]

updateDrag(s, who, position) ==
  LET prev == s.drag
      s1 == Emit(s, Entry("updateDrag", who, Null, position, FALSE))
  IN IF ~prev.isDragging \/ prev.initialPosition = NullPoint
     THEN s1
     ELSE LET newDelta == delta(prev.initialPosition, position)
              s2 == IF prev.data # NoData
                    THEN Emit(s1, Entry("drag-move", prev.data.id, Null,
                                        position, FALSE))
                    ELSE s1
          IN [s2 EXCEPT !.drag = [prev EXCEPT !.position = position,
                                              !.delta = newDelta],
                        !.dirty = TRUE]

\* an endDrag that clears the phase and the data and keeps the other fields
endDragKeepsFields(s, who) ==
  LET currentState == s.rendered
      s1 == Emit(s, Entry("endDrag", who, Null, NullPoint, FALSE))
      s2 == IF currentState.data # NoData
            THEN Emit(s1, Entry("drag-end", currentState.data.id,
                                currentState.overDropZoneId,
                                currentState.position, FALSE))
            ELSE s1
  IN [s2 EXCEPT !.drag = [@ EXCEPT !.phase = "idle", !.isDragging = FALSE,
                                   !.data = NoData]]

\* an endDrag that reports no drop target
endDragNoZone(s, who) ==
  LET currentState == s.rendered
      s1 == Emit(s, Entry("endDrag", who, Null, NullPoint, FALSE))
      s2 == IF currentState.data # NoData
            THEN Emit(s1, Entry("drag-end", currentState.data.id, Null,
                                currentState.position, FALSE))
            ELSE s1
  IN [s2 EXCEPT !.drag = INITIAL_DRAG_STATE]

endDrag(s, who) ==
  LET currentState == s.rendered
      s1 == Emit(s, Entry("endDrag", who, Null, NullPoint, FALSE))
      s2 == IF currentState.data # NoData
            THEN Emit(s1, Entry("drag-end", currentState.data.id,
                                currentState.overDropZoneId,
                                currentState.position, FALSE))
            ELSE s1
  IN [s2 EXCEPT !.drag = INITIAL_DRAG_STATE]

\* a cancel that reports like endDrag: cancelled = false, hovered target id
cancelDragAsEnd(s, who) == endDrag(s, who)

\* a cancelDrag that reports the hovered target
cancelDragWithZone(s, who) ==
  LET currentState == s.rendered
      s1 == Emit(s, Entry("cancelDrag", who, Null, NullPoint, FALSE))
      s2 == IF currentState.data # NoData
            THEN Emit(s1, Entry("drag-end", currentState.data.id,
                                currentState.overDropZoneId,
                                currentState.position, TRUE))
            ELSE s1
  IN [s2 EXCEPT !.drag = INITIAL_DRAG_STATE]

cancelDrag(s, who) ==
  LET currentState == s.rendered
      s1 == Emit(s, Entry("cancelDrag", who, Null, NullPoint, FALSE))
      s2 == IF currentState.data # NoData
            THEN Emit(s1, Entry("drag-end", currentState.data.id, Null,
                                currentState.position, TRUE))
            ELSE s1
  IN [s2 EXCEPT !.drag = INITIAL_DRAG_STATE]

\* useDnDContext throws when no provider encloses the caller; the error is
\* the last entry of the log then
useDnDContextOptional(s, who) == s

useDnDContext(s, who) ==
  IF provider THEN s
  ELSE Emit(s, Entry("error", who, Null, NullPoint, TRUE))

Threw(s) == s.log # <<>> /\ s.log[Len(s.log)].op = "error"

\* a register that keeps the entry an id already has
registerDropZoneFirstWins(s, id, element) ==
  IF s.dropZones[id] # Null THEN s
  ELSE [s EXCEPT !.dropZones = [@ EXCEPT ![id] = element]]

registerDropZone(s, id, element) ==
  [s EXCEPT !.dropZones = [@ EXCEPT ![id] = element]]

\* an unregister that also resets the drag in progress
unregisterDropZoneResets(s, id) ==
  [s EXCEPT !.dropZones = [@ EXCEPT ![id] = Null],
            !.drag = INITIAL_DRAG_STATE]

unregisterDropZone(s, id) ==
  [s EXCEPT !.dropZones = [@ EXCEPT ![id] = Null]]

\* a setOverDropZone that stores a new state object whatever the id
setOverDropZoneAlways(s, id) ==
  [s EXCEPT !.drag = [@ EXCEPT !.overDropZoneId = id], !.dirty = TRUE]

setOverDropZone(s, id) ==
  IF s.drag.overDropZoneId = id
  THEN s
  ELSE [s EXCEPT !.drag = [@ EXCEPT !.overDropZoneId = id]]

\* ------------------------------------------------------------------------
\* useDropZone.ts: one drop target controller.  z is zone[t].
\* ------------------------------------------------------------------------

\* an acceptance test that does not look at config.disabled
isAcceptedTypeOfEnabled(z, t, type) == type \in AcceptOf(t)

\* an acceptance test that does not look at the drag type
isAcceptedTypeAny(z, t, type) == ~z.disabled

isAcceptedType(z, t, type) == ~z.disabled /\ type \in AcceptOf(t)

isPositionOver(z, position) ==
  /\ position # NullPoint
  /\ z.element # Null
  /\ isPointInRect(position, z.rect)

\* canDropAns is what config.canDrop answers now (TRUE when it is absent)
checkCanDrop(z) == ~z.disabled /\ z.canDropAns

\* a drag state effect that does not record the entry in prevIsOverRef
DragStateEffectNoFlag(s, t) ==
  LET z == s.zone[t]
      d == s.rendered
  IN IF ~d.isDragging \/ d.data = NoData \/ ~isAcceptedType(z, t, d.data.type)
     THEN IF z.prevIsOver
          THEN LET s1 == [s EXCEPT !.zone[t].prevIsOver = FALSE,
                                   !.zone[t].dropState = INITIAL_DROP_STATE]
                   s2 == Emit(s1, Entry("onDragLeave", t, Null, NullPoint, FALSE))
               IN setOverDropZone(s2, Null)
          ELSE s
     ELSE LET isOver == isPositionOver(z, d.position)
              canDropHere == isOver /\ checkCanDrop(z)
          IN IF isOver # z.prevIsOver
             THEN IF isOver
                  THEN LET s1 == [s EXCEPT !.zone[t].dropState =
                                      [isOver |-> TRUE, canDrop |-> canDropHere,
                                       dragData |-> d.data]]
                           s2 == setOverDropZone(s1, t)
                       IN Emit(s2, Entry("onDragEnter", t, d.data.payload,
                                         NullPoint, FALSE))
                  ELSE LET s1 == [s EXCEPT !.zone[t].dropState = INITIAL_DROP_STATE,
                                           !.zone[t].prevIsOver = FALSE]
                           s2 == setOverDropZone(s1, Null)
                       IN Emit(s2, Entry("onDragLeave", t, Null, NullPoint, FALSE))
             ELSE IF isOver
                  THEN LET s1 == [s EXCEPT !.zone[t].dropState =
                                      [@ EXCEPT !.canDrop = canDropHere,
                                                !.dragData = d.data]]
                       IN IF d.position # NullPoint
                          THEN Emit(s1, Entry("onDragOver", t, d.data.payload,
                                              d.position, FALSE))
                          ELSE s1
                  ELSE s

\* the "drag state effect": runs after a render in which dragState.isDragging,
\* .data or .position, or one of the memoised helpers, changed
DragStateEffect(s, t) ==
  LET z == s.zone[t]
      d == s.rendered
  IN IF ~d.isDragging \/ d.data = NoData \/ ~isAcceptedType(z, t, d.data.type)
     THEN IF z.prevIsOver
          THEN LET s1 == [s EXCEPT !.zone[t].prevIsOver = FALSE,
                                   !.zone[t].dropState = INITIAL_DROP_STATE]
                   s2 == Emit(s1, Entry("onDragLeave", t, Null, NullPoint, FALSE))
               IN setOverDropZone(s2, Null)
          ELSE s
     ELSE LET isOver == isPositionOver(z, d.position)
              canDropHere == isOver /\ checkCanDrop(z)
          IN IF isOver # z.prevIsOver
             THEN IF isOver
                  THEN LET s1 == [s EXCEPT !.zone[t].dropState =
                                      [isOver |-> TRUE, canDrop |-> canDropHere,
                                       dragData |-> d.data],
                                    !.zone[t].prevIsOver = TRUE]
                           s2 == setOverDropZone(s1, t)
                       IN Emit(s2, Entry("onDragEnter", t, d.data.payload,
                                         NullPoint, FALSE))
                  ELSE LET s1 == [s EXCEPT !.zone[t].dropState = INITIAL_DROP_STATE,
                                           !.zone[t].prevIsOver = FALSE]
                           s2 == setOverDropZone(s1, Null)
                       IN Emit(s2, Entry("onDragLeave", t, Null, NullPoint, FALSE))
             ELSE IF isOver
                  THEN LET s1 == [s EXCEPT !.zone[t].dropState =
                                      [@ EXCEPT !.canDrop = canDropHere,
                                                !.dragData = d.data]]
                       IN IF d.position # NullPoint
                          THEN Emit(s1, Entry("onDragOver", t, d.data.payload,
                                              d.position, FALSE))
                          ELSE s1
                  ELSE s

\* a handleDrop that hands the position of the pick-up to onDrop
handleDropAtStart(s, t) ==
  LET currentDropState == s.zone[t].dropState
      currentDragState == s.rendered
      s1 == Emit(s, Entry("handleDrop", t, currentDragState.data.id,
                          currentDragState.position,
                          currentDragState.isDragging))
  IN IF /\ currentDropState.isOver
        /\ currentDropState.canDrop
        /\ currentDragState.data # NoData
        /\ currentDragState.position # NullPoint
     THEN Emit(s1, Entry("onDrop", t, currentDragState.data.payload,
                         currentDragState.initialPosition, FALSE))
     ELSE s1

\* the capture-phase mouseup/touchend listener of target t.  The first entry
\* records what the listener read from dragStateRef and dropStateRef.
handleDrop(s, t) ==
  LET currentDropState == s.zone[t].dropState
      currentDragState == s.rendered
      s1 == Emit(s, Entry("handleDrop", t, currentDragState.data.id,
                          currentDragState.position,
                          currentDragState.isDragging))
  IN IF /\ currentDropState.isOver
        /\ currentDropState.canDrop
        /\ currentDragState.data # NoData
        /\ currentDragState.position # NullPoint
     THEN Emit(s1, Entry("onDrop", t, currentDragState.data.payload,
                         currentDragState.position, FALSE))
     ELSE s1

\* the ref callback of the target's element
setRef(s, t, element) ==
  LET s1 == IF s.zone[t].element # Null /\ s.zone[t].element # element
            THEN unregisterDropZone(s, t)
            ELSE s
      s2 == [s1 EXCEPT !.zone[t].element = element]
  IN IF element # Null THEN registerDropZone(s2, t, element) ELSE s2

\* ------------------------------------------------------------------------
\* useDraggable.ts: one draggable controller.
\* ------------------------------------------------------------------------

NoPending == [active |-> FALSE, position |-> NullPoint, offset |-> Pt(0, 0),
              timer |-> FALSE]

UnmountedCtl == [mounted |-> FALSE, isPending |-> FALSE, isOurDrag |-> FALSE,
                 pendingStart |-> NoPending, listening |-> FALSE]

MountedCtl == [UnmountedCtl EXCEPT !.mounted = TRUE]

\* an isDragging that does not compare the dragged item's id
isDraggingAny(d, c) == d.isDragging

\* const isDragging = dragState.isDragging && dragState.data?.id === id
isDraggingItem(d, c) == d.isDragging /\ d.data.id = c

shouldActivate(c, initialPosition, currentPosition) ==
  LET minDistance == activation[c].distance
  IN IF minDistance <= 0
     THEN TRUE
     ELSE distanceGE(initialPosition, currentPosition, minDistance)

\* pendingStart.timer, when set, is the handle of the timer scheduled last
clearPending(s, c) ==
  LET p == s.ctl[c].pendingStart
      s1 == IF p.active /\ p.timer
            THEN [s EXCEPT !.timers[c] = SubSeq(@, 1, Len(@) - 1)]
            ELSE s
  IN [s1 EXCEPT !.ctl[c].pendingStart = NoPending,
                !.ctl[c].isPending = FALSE]

\* the setTimeout callback scheduled by handleDragStart, with the position
\* and offset it closed over
timerCallback(s, c, tm) ==
  IF s.ctl[c].pendingStart.active
  THEN LET s1 == [s EXCEPT !.ctl[c].isOurDrag = TRUE]
           s2 == startDrag(s1, DragDataOf(c), tm.position, tm.offset)
       IN clearPending(s2, c)
  ELSE s

handleDragStart(s, c, position, offset) ==
  LET a == activation[c]
  IN IF a.delay <= 0 /\ a.distance <= 0
     THEN startDrag([s EXCEPT !.ctl[c].isOurDrag = TRUE],
                    DragDataOf(c), position, offset)
     ELSE LET s1 == [s EXCEPT !.ctl[c].isPending = TRUE,
                              !.ctl[c].pendingStart =
                                 [active |-> TRUE, position |-> position,
                                  offset |-> offset, timer |-> FALSE]]
          IN IF a.delay > 0
             THEN [s1 EXCEPT !.ctl[c].pendingStart.timer = TRUE,
                             !.timers[c] = Append(@, [position |-> position,
                                                      offset |-> offset])]
             ELSE s1

handleMove(s, c, position) ==
  LET k == s.ctl[c]
  IN IF k.pendingStart.active /\ ~k.isOurDrag
     THEN LET tolerance == activation[c].tolerance
          IN IF k.pendingStart.timer
                /\ distanceGT(k.pendingStart.position, position, tolerance)
             THEN clearPending(s, c)
             ELSE IF shouldActivate(c, k.pendingStart.position, position)
                  THEN LET s1 == [s EXCEPT !.ctl[c].isOurDrag = TRUE]
                           s2 == startDrag(s1, DragDataOf(c), position,
                                           k.pendingStart.offset)
                       IN clearPending(s2, c)
                  ELSE s
     ELSE IF k.isOurDrag
          THEN updateDrag(s, c, position)
          ELSE s

handleDragEnd(s, c) ==
  LET s1 == clearPending(s, c)
  IN IF s1.ctl[c].isOurDrag
     THEN endDrag([s1 EXCEPT !.ctl[c].isOurDrag = FALSE], c)
     ELSE s1

handleCancel(s, c) ==
  LET s1 == clearPending(s, c)
  IN IF s1.ctl[c].isOurDrag
     THEN cancelDrag([s1 EXCEPT !.ctl[c].isOurDrag = FALSE], c)
     ELSE s1

\* handleMouseDown / handleTouchStart: offset = pointer - element's top left
pointerOffset(position) ==
  Pt(position.x - DraggableRect.left, position.y - DraggableRect.top)

\* handleKeyDown: the element's centre, and half its extents
keyboardPosition ==
  Pt(DraggableRect.left + DraggableRect.width \div 2,
     DraggableRect.top + DraggableRect.height \div 2)
keyboardOffset == Pt(DraggableRect.width \div 2, DraggableRect.height \div 2)

\* ------------------------------------------------------------------------
\* React commit: render, then effects.
\* ------------------------------------------------------------------------

\* dependencies compared by value: a repeated position changes nothing
depsChangedByValue(s) ==
  \/ s.drag.isDragging # s.rendered.isDragging
  \/ s.drag.data # s.rendered.data
  \/ s.drag.position # s.rendered.position

\* the dependencies of the drag state effect that the coordinator owns:
\* dragState.isDragging, .data and .position (startDrag and updateDrag store
\* fresh objects, which s.dirty records)
depsChanged(s) ==
  \/ s.dirty
  \/ s.drag.isDragging # s.rendered.isDragging
  \/ s.drag.data # s.rendered.data
  \/ s.drag.position # s.rendered.position

\* [isDragging, isPending] of controller c, the dependencies of its global
\* listener effect
listenerDeps(d, k, c) == <<isDraggingItem(d, c), k.isPending>>

\* render of the provider and of every hook: refs take the new state, the
\* Escape listener effect and the controllers' global listener effects run
Render(s) ==
  LET reattach == {c \in Draggables :
                     /\ s.ctl[c].mounted
                     /\ listenerDeps(s.drag, s.ctl[c], c) # s.snap[c]}
  IN [s EXCEPT !.rendered = s.drag,
               !.dirty = FALSE,
               !.esc = s.drag.isDragging,
               !.snap = [c \in Draggables |->
                           listenerDeps(s.drag, s.ctl[c], c)],
               !.reattached = @ \cup reattach,
               !.ctl = [c \in Draggables |->
                          [s.ctl[c] EXCEPT !.listening =
                             /\ s.ctl[c].mounted
                             /\ \/ isDraggingItem(s.drag, c)
                                \/ s.ctl[c].isPending]]]

RECURSIVE RunEffects(_, _, _, _)
RunEffects(s, order, changed, forced) ==
  IF order = <<>>
  THEN s
  ELSE LET t == Head(order)
           s1 == IF s.zone[t].mounted
                 THEN LET a == IF changed \/ t \in forced
                               THEN DragStateEffect(s, t)
                               ELSE s
                      IN [a EXCEPT !.zone[t].listening = a.rendered.isDragging]
                 ELSE s
       IN RunEffects(s1, Tail(order), changed, forced)

\* forced: the targets whose drag state effect runs whatever the coordinator
\* did (first render, or a changed isAcceptedType / checkCanDrop)
Settle(s, forced) ==
  LET changed == depsChanged(s)
      s1 == Render(s)
      s2 == RunEffects(s1, zoneOrder, changed, forced)
  IN [s2 EXCEPT !.rendered = s2.drag]

\* ------------------------------------------------------------------------
\* Event dispatch on document.  A listener runs if it was attached when the
\* dispatch began and has not been removed or replaced since.
\* ------------------------------------------------------------------------

RECURSIVE RunMove(_, _, _)
RunMove(s, order, position) ==
  IF order = <<>>
  THEN s
  ELSE LET c == Head(order)
           s1 == IF s.ctl[c].listening /\ c \notin s.reattached
                 THEN Settle(handleMove(s, c, position), {})
                 ELSE s
       IN RunMove(s1, Tail(order), position)

RECURSIVE RunDragEnd(_, _)
RunDragEnd(s, order) ==
  IF order = <<>>
  THEN s
  ELSE LET c == Head(order)
           s1 == IF s.ctl[c].listening /\ c \notin s.reattached
                 THEN Settle(handleDragEnd(s, c), {})
                 ELSE s
       IN RunDragEnd(s1, Tail(order))

RECURSIVE RunCancel(_, _)
RunCancel(s, order) ==
  IF order = <<>>
  THEN s
  ELSE LET c == Head(order)
           s1 == IF s.ctl[c].listening /\ c \notin s.reattached
                 THEN Settle(handleCancel(s, c), {})
                 ELSE s
       IN RunCancel(s1, Tail(order))

RECURSIVE RunDrop(_, _)
RunDrop(s, order) ==
  IF order = <<>>
  THEN s
  ELSE LET t == Head(order)
           s1 == IF s.zone[t].mounted /\ s.zone[t].listening
                 THEN Settle(handleDrop(s, t), {})
                 ELSE s
       IN RunDrop(s1, Tail(order))

\* the listeners in registration order only: the controllers' before the
\* targets'
dispatchReleaseNoCapture(s, order) == RunDrop(RunDragEnd(s, order), zoneOrder)

\* mouseup / touchend: the targets' capture-phase listeners, then the
\* controllers' bubble-phase listeners
dispatchRelease(s, order) == RunDragEnd(RunDrop(s, zoneOrder), order)

CtlOrders == {<<"b1", "b2">>, <<"b2", "b1">>}
ZoneOrders == {<<"t1", "t2">>, <<"t2", "t1">>}

\* ------------------------------------------------------------------------
\* The state between two events
\* ------------------------------------------------------------------------

Cur ==
  [drag |-> dragState, rendered |-> dragState, dirty |-> FALSE,
   ctl |-> ctl, timers |-> timers, zone |-> zone, dropZones |-> dropZones,
   esc |-> escListening, log |-> <<>>, reattached |-> {},
   snap |-> [c \in Draggables |-> listenerDeps(dragState, ctl[c], c)]]

\* the index of the last entry of lg with operation op, or 0
LastIndex(lg, op) ==
  LET I == {i \in 1..Len(lg) : lg[i].op = op}
  IN IF I = {} THEN 0 ELSE CHOOSE i \in I : \A j \in I : j <= i

\* the onDragEnter and onDragLeave entries of target t in lg, in order
IsEdgeOf(e, t) == e.who = t /\ e.op \in {"onDragEnter", "onDragLeave"}

RECURSIVE Edges(_, _)
Edges(lg, t) ==
  IF lg = <<>> THEN <<>>
  ELSE IF IsEdgeOf(Head(lg), t)
       THEN <<Head(lg)>> \o Edges(Tail(lg), t)
       ELSE Edges(Tail(lg), t)

\* History of target t over the drag in progress.  entered: onDragEnter was
\* delivered since the last startDrag.  outside: the pointer position was last
\* set by an updateDrag, and that position was outside t's region then.
\* over: the last of onDragEnter / onDragLeave that this instance of the
\* target's controller delivered was onDragEnter.
NextHist(s, t) ==
  LET lg == s.log
      iStart == LastIndex(lg, "startDrag")
      iMove == LastIndex(lg, "drag-move")
      enteredNow == \E i \in 1..Len(lg) :
                       lg[i].op = "onDragEnter" /\ lg[i].who = t /\ i > iStart
      edges == Edges(lg, t)
  IN [entered |-> IF iStart > 0 THEN enteredNow
                  ELSE hist[t].entered \/ enteredNow,
      outside |-> IF iMove > iStart
                  THEN ~isPositionOver(s.zone[t], lg[iMove].pos)
                  ELSE IF iStart > 0 THEN FALSE ELSE hist[t].outside,
      over |-> IF ~s.zone[t].mounted THEN FALSE
               ELSE IF edges = <<>> THEN hist[t].over
               ELSE edges[Len(edges)].op = "onDragEnter"]

NoHist == [entered |-> FALSE, outside |-> FALSE, over |-> FALSE]

\* the number of entries of lg with operation op sent by who
CountBy(lg, op, who) ==
  Cardinality({i \in 1..Len(lg) : lg[i].op = op /\ lg[i].who = who})

\* Callbacks of target t counted from a pick-up on: pick and last are the
\* pick-up position and the latest pointer position, moves the pointer moves,
\* enter, over and drop the onDragEnter, onDragOver and onDrop calls of t.
NoTally(on) ==
  [on |-> on, pick |-> NullPoint, last |-> NullPoint, moves |-> 0,
   enter |-> 0, over |-> 0, drop |-> 0]

NextTally(s, t, name, pos) ==
  LET base == IF name = "pickup"
              THEN [NoTally(TRUE) EXCEPT !.pick = pos] ELSE tally
  IN [base EXCEPT
        !.last = IF name \in {"pickup", "move"} THEN pos ELSE @,
        !.moves = IF name = "move" THEN @ + 1 ELSE @,
        !.enter = @ + CountBy(s.log, "onDragEnter", t),
        !.over = @ + CountBy(s.log, "onDragOver", t),
        !.drop = @ + CountBy(s.log, "onDrop", t)]

Commit(s, name, who, pos) ==
  /\ hist' = [t \in Targets |-> NextHist(s, t)]
  /\ tally' = IF tally.on THEN NextTally(s, "t1", name, pos) ELSE tally
  /\ dragState' = s.drag
  /\ ctl' = s.ctl
  /\ timers' = s.timers
  /\ zone' = s.zone
  /\ dropZones' = s.dropZones
  /\ escListening' = s.esc
  /\ log' = s.log
  /\ event' = [name |-> name, who |-> who, pos |-> pos,
               again |-> name = "move" /\ event.name = "move"
                         /\ event.pos = pos]
  /\ UNCHANGED <<activation, zoneOrder, provider, geom>>

UnmountedZone ==
  [mounted |-> FALSE, element |-> Null, rect |-> RectA, disabled |-> FALSE,
   canDropAns |-> TRUE, dropState |-> INITIAL_DROP_STATE,
   prevIsOver |-> FALSE, listening |-> FALSE]

MountedZone(element, rect) ==
  [UnmountedZone EXCEPT !.mounted = TRUE, !.element = element, !.rect = rect]

\* ------------------------------------------------------------------------
\* Actions
\* ------------------------------------------------------------------------

\* mousedown / touchstart on draggable c at position
PickUp(c, position) ==
  /\ ctl[c].mounted
  /\ activation[c].delay > 0 => Len(timers[c]) < MaxTimers
  /\ Commit(Settle(handleDragStart(Cur, c, position, pointerOffset(position)), {}),
            "pickup", c, position)

\* Space or Enter on draggable c
KeyDown(c) ==
  /\ ctl[c].mounted
  /\ activation[c].delay > 0 => Len(timers[c]) < MaxTimers
  /\ Commit(Settle(handleDragStart(Cur, c, keyboardPosition, keyboardOffset), {}),
            "keydown", c, keyboardPosition)

\* mousemove / touchmove
Move(position, order) ==
  /\ \E c \in Draggables : ctl[c].listening
  /\ Commit(RunMove(Cur, order, position), "move", Null, position)

\* mouseup / touchend
Release(order) ==
  /\ \/ \E c \in Draggables : ctl[c].listening
     \/ \E t \in Targets : zone[t].listening
  /\ Commit(dispatchRelease(Cur, order), "release", Null, NullPoint)

\* touchcancel
TouchCancel(order) ==
  /\ \E c \in Draggables : ctl[c].listening
  /\ Commit(RunCancel(Cur, order), "touchcancel", Null, NullPoint)

\* keydown Escape, heard by the provider's listener
Escape ==
  /\ escListening
  /\ Commit(Settle(cancelDrag(Cur, "provider"), {}), "escape", Null, NullPoint)

\* the i-th scheduled timer of controller c fires
TimerFire(c, i) ==
  /\ i \in 1..Len(timers[c])
  /\ LET tm == timers[c][i]
         rest == [j \in 1..(Len(timers[c]) - 1) |->
                    IF j < i THEN timers[c][j] ELSE timers[c][j + 1]]
         isCurrent == /\ ctl[c].pendingStart.active
                      /\ ctl[c].pendingStart.timer
                      /\ i = Len(timers[c])
         s0 == [Cur EXCEPT !.timers[c] = rest,
                           !.ctl[c].pendingStart.timer =
                              IF isCurrent THEN FALSE ELSE @]
     IN Commit(Settle(timerCallback(s0, c, tm), {}), "timer", c, tm.position)

\* first render of draggable c: useDraggable calls useDnDContext
MountDraggable(c) ==
  /\ ~ctl[c].mounted
  /\ LET s0 == useDnDContext(Cur, c)
     IN IF Threw(s0)
        THEN Commit(s0, "mountDraggable", c, NullPoint)
        ELSE Commit(Settle([s0 EXCEPT !.ctl[c] = MountedCtl], {}),
                    "mountDraggable", c, NullPoint)

\* an unmount whose cleanup clears the pending start and calls no cancelDrag
UnmountDraggableNoCancel(c) ==
  /\ ctl[c].mounted
  /\ LET s1 == clearPending(Cur, c)
         s3 == [s1 EXCEPT !.ctl[c] = UnmountedCtl, !.timers[c] = <<>>]
     IN Commit(Settle(s3, {}), "unmountDraggable", c, NullPoint)

\* unmount: the listener effect's cleanup, then the unmount cleanup effect
UnmountDraggable(c) ==
  /\ ctl[c].mounted
  /\ LET s1 == clearPending(Cur, c)
         s2 == IF s1.ctl[c].isOurDrag THEN cancelDrag(s1, c) ELSE s1
         s3 == [s2 EXCEPT !.ctl[c] = UnmountedCtl, !.timers[c] = <<>>]
     IN Commit(Settle(s3, {}), "unmountDraggable", c, NullPoint)

\* first render of target t with its element at rect
MountTarget(t, element, rect) ==
  /\ ~zone[t].mounted
  /\ LET s0 == useDnDContext(Cur, t)
         s1 == [s0 EXCEPT !.zone[t] = MountedZone(Null, rect)]
         s2 == setRef(s1, t, element)
     IN IF Threw(s0)
        THEN Commit(s0, "mountTarget", t, NullPoint)
        ELSE Commit(Settle(s2, {t}), "mountTarget", t, NullPoint)

\* a render of the DragOverlay component: nothing while not dragging, else
\* the payload at position - offset
DragOverlay(s) ==
  LET s0 == useDnDContext(s, "overlay")
      d == s0.rendered
  IN IF Threw(s0) THEN s0
     ELSE IF ~d.isDragging \/ d.position = NullPoint \/ d.data = NoData
          THEN Emit(s0, Entry("overlay", "overlay", Null, NullPoint, FALSE))
          ELSE Emit(s0, Entry("overlay", "overlay", d.data.payload,
                              Pt(d.position.x - d.offset.x,
                                 d.position.y - d.offset.y), TRUE))

RenderOverlay ==
  Commit(DragOverlay(Cur), "renderOverlay", "overlay", NullPoint)

\* unmount: the ref callback gets null, then the effects' cleanups run
UnmountTarget(t) ==
  /\ zone[t].mounted
  /\ LET s1 == setRef(Cur, t, Null)
         s2 == unregisterDropZone(s1, t)
         s3 == [s2 EXCEPT !.zone[t] = UnmountedZone]
     IN Commit(Settle(s3, {}), "unmountTarget", t, NullPoint)

\* the element leaves the document while the hook stays mounted
DetachTarget(t) ==
  /\ zone[t].mounted
  /\ zone[t].element # Null
  /\ Commit(Settle(setRef(Cur, t, Null), {}), "detachTarget", t, NullPoint)

AttachTarget(t, element) ==
  /\ zone[t].mounted
  /\ zone[t].element = Null
  /\ Commit(Settle(setRef(Cur, t, element), {}), "attachTarget", t, NullPoint)

\* layout moves the element of target t; nothing re-renders
MoveRegion(t, rect) ==
  /\ zone[t].mounted
  /\ zone[t].rect # rect
  /\ Commit([Cur EXCEPT !.zone[t].rect = rect], "moveRegion", t, NullPoint)

\* what config.canDrop answers changes; nothing re-renders
SetCanDrop(t, b) ==
  /\ zone[t].mounted
  /\ zone[t].canDropAns # b
  /\ Commit([Cur EXCEPT !.zone[t].canDropAns = b], "setCanDrop", t, NullPoint)

\* config.disabled changes: isAcceptedType and checkCanDrop are new functions
SetDisabled(t, b) ==
  /\ zone[t].mounted
  /\ zone[t].disabled # b
  /\ Commit(Settle([Cur EXCEPT !.zone[t].disabled = b], {t}),
            "setDisabled", t, NullPoint)

\* ------------------------------------------------------------------------
\* Specification
\* ------------------------------------------------------------------------

InitWith(acts, orders, items, targets) ==
  /\ dragState = INITIAL_DRAG_STATE
  /\ ctl = [c \in Draggables |->
              IF c \in items THEN MountedCtl ELSE UnmountedCtl]
  /\ timers = [c \in Draggables |-> <<>>]
  /\ zone = [t \in Targets |->
               IF t \in targets
               THEN MountedZone("e1", IF t = "t1" THEN RectA ELSE RectB)
               ELSE UnmountedZone]
  /\ dropZones = [t \in Targets |-> IF t \in targets THEN "e1" ELSE Null]
  /\ escListening = FALSE
  /\ activation \in acts
  /\ zoneOrder \in orders
  /\ event = [name |-> "init", who |-> Null, pos |-> NullPoint,
              again |-> FALSE]
  /\ log = <<>>
  /\ hist = [t \in Targets |-> NoHist]
  /\ tally = NoTally(FALSE)
  /\ provider = TRUE
  /\ geom = NoGeom

\* the targets whose lifecycle, layout and configuration change
DynamicTargets == {"t1"}

\* Spec: two items with DEFAULT_ACTIVATION (a drag starts at pick-up) and two
\* overlapping targets, of which t1 is mounted, detached, moved and
\* reconfigured while the items are used
Init ==
  InitWith({[c \in Draggables |-> DEFAULT_ACTIVATION]}, {<<"t1", "t2">>},
           Draggables, Targets)

Next ==
  \/ \E c \in Draggables, p \in PickPositions : PickUp(c, p)
  \/ \E c \in Draggables : KeyDown(c)
  \/ \E p \in PointerPositions, o \in CtlOrders : Move(p, o)
  \/ \E o \in CtlOrders : Release(o)
  \/ \E o \in CtlOrders : TouchCancel(o)
  \/ Escape
  \/ \E t \in DynamicTargets, e \in Elements, r \in Regions : MountTarget(t, e, r)
  \/ \E t \in DynamicTargets : UnmountTarget(t)
  \/ \E t \in DynamicTargets : DetachTarget(t)
  \/ \E t \in DynamicTargets, e \in Elements : AttachTarget(t, e)
  \/ \E t \in DynamicTargets, r \in Regions : MoveRegion(t, r)
  \/ \E t \in DynamicTargets, b \in BOOLEAN : SetCanDrop(t, b)
  \/ \E t \in DynamicTargets, b \in BOOLEAN : SetDisabled(t, b)

Spec == Init /\ [][Next]_vars

\* SpecAct: two items, b1 with any of the activation configurations, that
\* are picked up, moved, released, cancelled, mounted and unmounted over one
\* fixed target
InitAct ==
  InitWith({a \in [Draggables -> Activations] : a["b2"] = DEFAULT_ACTIVATION},
           {<<"t1", "t2">>}, Draggables, {"t1"})

NextAct ==
  \/ \E c \in Draggables, p \in PickPositions : PickUp(c, p)
  \/ \E c \in Draggables : KeyDown(c)
  \/ \E p \in PointerPositions, o \in CtlOrders : Move(p, o)
  \/ \E o \in CtlOrders : Release(o)
  \/ \E o \in CtlOrders : TouchCancel(o)
  \/ Escape
  \/ \E c \in Draggables, i \in 1..MaxTimers : TimerFire(c, i)
  \/ \E c \in Draggables : MountDraggable(c)
  \/ \E c \in Draggables : UnmountDraggable(c)

SpecAct == InitAct /\ [][NextAct]_vars

\* SpecWire: the components are mounted, with or without a provider around
\* them, and then used as in SpecAct; b1 starts at once or after a distance
InitWire ==
  /\ dragState = INITIAL_DRAG_STATE
  /\ ctl = [c \in Draggables |-> UnmountedCtl]
  /\ timers = [c \in Draggables |-> <<>>]
  /\ zone = [t \in Targets |-> UnmountedZone]
  /\ dropZones = [t \in Targets |-> Null]
  /\ escListening = FALSE
  /\ activation \in {a \in [Draggables -> {DEFAULT_ACTIVATION, ActDistance}] :
                       a["b2"] = DEFAULT_ACTIVATION}
  /\ zoneOrder = <<"t1", "t2">>
  /\ event = [name |-> "init", who |-> Null, pos |-> NullPoint,
              again |-> FALSE]
  /\ log = <<>>
  /\ hist = [t \in Targets |-> NoHist]
  /\ tally = NoTally(FALSE)
  /\ provider \in BOOLEAN
  /\ geom = NoGeom

NextWire ==
  \/ \E c \in Draggables : MountDraggable(c)
  \/ \E c \in Draggables : UnmountDraggable(c)
  \/ MountTarget("t1", "e1", RectA)
  \/ RenderOverlay
  \/ \E c \in Draggables, p \in PickPositions : PickUp(c, p)
  \/ \E p \in PointerPositions, o \in CtlOrders : Move(p, o)
  \/ \E o \in CtlOrders : Release(o)
  \/ Escape

SpecWire == InitWire /\ [][NextWire]_vars

\* SpecE2E: one item without activation constraints and one target that
\* accepts its type, always allows the drop and covers (0,0)-(400,400); the
\* item is picked up inside the target, moved inside it up to MaxMoves times
\* and released
MaxMoves == 3

Rect400 ==
  [left |-> 0, top |-> 0, right |-> 400, bottom |-> 400,
   width |-> 400, height |-> 400]

E2EPoints == {Pt(50, 50), Pt(120, 120), Pt(0, 0), Pt(400, 400), Pt(200, 300)}

InitE2E ==
  /\ dragState = INITIAL_DRAG_STATE
  /\ ctl = [c \in Draggables |->
              IF c = "b1" THEN MountedCtl ELSE UnmountedCtl]
  /\ timers = [c \in Draggables |-> <<>>]
  /\ zone = [t \in Targets |->
               IF t = "t1" THEN MountedZone("e1", Rect400) ELSE UnmountedZone]
  /\ dropZones = [t \in Targets |-> IF t = "t1" THEN "e1" ELSE Null]
  /\ escListening = FALSE
  /\ activation = [c \in Draggables |-> DEFAULT_ACTIVATION]
  /\ zoneOrder = <<"t1", "t2">>
  /\ event = [name |-> "init", who |-> Null, pos |-> NullPoint,
              again |-> FALSE]
  /\ log = <<>>
  /\ hist = [t \in Targets |-> NoHist]
  /\ tally = NoTally(TRUE)
  /\ provider = TRUE
  /\ geom = NoGeom

NextE2E ==
  \/ \E p \in E2EPoints : dragState.phase = "idle" /\ PickUp("b1", p)
  \/ \E p \in E2EPoints :
       /\ dragState.isDragging
       /\ tally.moves < MaxMoves
       /\ Move(p, <<"b1", "b2">>)
  \/ dragState.isDragging /\ Release(<<"b1", "b2">>)

SpecE2E == InitE2E /\ [][NextE2E]_vars

\* SpecGeom: the geometry functions of utils.ts on their own.  Two bounding
\* boxes a and b with coordinates in Coords are fixed at the start; Measure
\* applies rectsIntersect, intersectionArea (both ways round) and
\* intersectionRatio to them, Probe applies isPointInRect to a point and a.
InitGeom ==
  /\ dragState = INITIAL_DRAG_STATE
  /\ ctl = [c \in Draggables |-> UnmountedCtl]
  /\ timers = [c \in Draggables |-> <<>>]
  /\ zone = [t \in Targets |-> UnmountedZone]
  /\ dropZones = [t \in Targets |-> Null]
  /\ escListening = FALSE
  /\ activation = [c \in Draggables |-> DEFAULT_ACTIVATION]
  /\ zoneOrder = <<"t1", "t2">>
  /\ event = [name |-> "init", who |-> Null, pos |-> NullPoint,
              again |-> FALSE]
  /\ log = <<>>
  /\ hist = [t \in Targets |-> NoHist]
  /\ tally = NoTally(FALSE)
  /\ provider = TRUE
  /\ geom \in {[NoGeom EXCEPT !.a = ra, !.b = rb] :
                 ra \in GeomRects, rb \in GeomRects}

Measure ==
  /\ geom.op # "measure"
  /\ geom' = [NoGeom EXCEPT
                !.op = "measure", !.a = geom.a, !.b = geom.b,
                !.intersects = rectsIntersect(geom.a, geom.b),
                !.area = intersectionArea(geom.a, geom.b),
                !.swapped = intersectionArea(geom.b, geom.a),
                !.ratio = intersectionRatio(geom.a, geom.b)]
  /\ UNCHANGED <<dragState, ctl, timers, zone, dropZones, escListening,
                 activation, zoneOrder, event, log, hist, tally, provider>>

Probe(p) ==
  /\ geom' = [NoGeom EXCEPT
                !.op = "probe", !.a = geom.a, !.b = geom.b, !.pt = p,
                !.inside = isPointInRect(p, geom.a)]
  /\ UNCHANGED <<dragState, ctl, timers, zone, dropZones, escListening,
                 activation, zoneOrder, event, log, hist, tally, provider>>

NextGeom ==
  \/ Measure
  \/ \E p \in GeomPoints : Probe(p)

SpecGeom == InitGeom /\ [][NextGeom]_vars

\* ------------------------------------------------------------------------
\* Properties
\* ------------------------------------------------------------------------

LogHas(lg, op) == \E i \in 1..Len(lg) : lg[i].op = op
LogHasBy(lg, op, who) == \E i \in 1..Len(lg) : lg[i].op = op /\ lg[i].who = who

\* C1: a pick-up, key press or timer that reaches startDrag while the
\* coordinator is dragging is a no-op (the DragOperation is unchanged and no
\* drag-start notification is sent), and the item being dragged is never
\* replaced by another item without an endDrag or cancelDrag.
C1_SecondStartDragIsNoOp ==
  [][/\ (/\ dragState.isDragging
         /\ event'.name \in {"pickup", "keydown", "timer"}
         /\ LogHas(log', "startDrag"))
        => (dragState' = dragState /\ ~LogHas(log', "drag-start"))
     /\ (/\ dragState.isDragging
         /\ dragState'.isDragging
         /\ dragState'.data.id # dragState.data.id)
        => (LogHas(log', "endDrag") \/ LogHas(log', "cancelDrag"))]_vars

\* the pointer is inside the current bounding region of an attached, enabled
\* target t that accepts the dragged type and whose canDrop says yes
AcceptingAtRelease(t) ==
  /\ dragState.isDragging
  /\ zone[t].mounted
  /\ zone[t].element # Null
  /\ isPointInRect(dragState.position, zone[t].rect)
  /\ dragState.data.type \in AcceptOf(t)
  /\ ~zone[t].disabled
  /\ zone[t].canDropAns

\* C2: on a release, onDrop of target t fires if and only if at that moment
\* the pointer is inside t's current region, t accepts the dragged type, is
\* not disabled and its canDrop answers true.
C2_DropIffAcceptingAtRelease ==
  [][event'.name = "release" =>
       \A t \in Targets : LogHasBy(log', "onDrop", t) <=> AcceptingAtRelease(t)]_vars

\* C3: if the pointer was over accepting target t earlier in the drag, and
\* the last updateDrag before the release placed it outside t's region (where
\* it still is when the release arrives), the release does not invoke
\* t's onDrop.
C3_NoDropAfterLeaving ==
  [][\A t \in Targets :
       (/\ event'.name = "release"
        /\ dragState.isDragging
        /\ hist[t].entered
        /\ hist[t].outside
        /\ ~isPositionOver(zone[t], dragState.position))
       => ~LogHasBy(log', "onDrop", t)]_vars

\* C4: on every release that ends a drag, the drop-commit check of every
\* mounted target runs before endDrag is called, and reads the DragOperation
\* (item, pointer position, dragging) as it was just before the release.
C4_DropCheckBeforeEndDrag ==
  [][(/\ event'.name = "release"
      /\ dragState.isDragging
      /\ LogHas(log', "endDrag"))
     => /\ \A t \in Targets :
             zone[t].mounted => LogHasBy(log', "handleDrop", t)
        /\ \A i \in 1..Len(log') :
             log'[i].op = "handleDrop"
             => /\ log'[i].arg = dragState.data.id
                /\ log'[i].pos = dragState.position
                /\ log'[i].flag
                /\ \A j \in 1..i : log'[j].op \notin {"endDrag", "drag-end"}]_vars

\* a release ended a drag and a target committed the drop
C4_Witness ==
  /\ event.name = "release"
  /\ LogHas(log, "endDrag")
  /\ LogHas(log, "drag-end")
  /\ LogHas(log, "onDrop")

\* number of entries of lg with operation op
Count(lg, op) == Cardinality({i \in 1..Len(lg) : lg[i].op = op})

\* the step is a cancel of the drag in progress: Escape, or touchcancel
\* heard by the controller whose item is being dragged
CancelStep ==
  /\ dragState.isDragging
  /\ \/ event'.name = "escape"
     \/ /\ event'.name = "touchcancel"
        /\ ctl[dragState.data.id].listening

\* C5: a cancel during dragging moves the coordinator to idle, sends exactly
\* one drag-end notification, with cancelled = true, and invokes no onDrop,
\* also when a target was hovered and accepting; a release that follows the
\* cancel invokes no onDrop either.
C5_CancelNeverDrops ==
  [][/\ CancelStep
        => /\ dragState' = INITIAL_DRAG_STATE
           /\ Count(log', "drag-end") = 1
           /\ \A i \in 1..Len(log') : log'[i].op = "drag-end" => log'[i].flag
           /\ ~LogHas(log', "onDrop")
     /\ (/\ event.name \in {"escape", "touchcancel"}
         /\ LogHas(log, "drag-end")
         /\ event'.name = "release")
        => ~LogHas(log', "onDrop")]_vars

\* Escape cancelled a drag while a target was hovered and accepting (it got
\* its synthetic leave)
C5_Witness ==
  /\ event.name = "escape"
  /\ LogHas(log, "drag-end")
  /\ LogHasBy(log, "onDragLeave", "t1")
  /\ \E c \in Draggables : ctl[c].listening

\* controller c waits for its activation constraint and hears the moves
PendingAndListening(c) == ctl[c].pendingStart.active /\ ctl[c].listening

\* C6: with activation {distance: 10} and no delay, a pick-up leaves the
\* controller pending without starting a drag; a move that stays below the
\* distance leaves it pending; the first move that reaches the distance makes
\* the idle coordinator drag the item with the triggering position as pointer
\* position.
C6_DistanceActivation ==
  [][\A c \in Draggables :
       activation[c] = ActDistance
       => /\ (event'.name = "pickup" /\ event'.who = c)
             => /\ ctl'[c].pendingStart.active
                /\ ~LogHasBy(log', "startDrag", c)
          /\ (/\ event'.name = "move"
              /\ PendingAndListening(c)
              /\ ~distanceGE(ctl[c].pendingStart.position, event'.pos, CfgDistance))
             => /\ ctl'[c].pendingStart.active
                /\ ~LogHasBy(log', "startDrag", c)
          /\ (/\ event'.name = "move"
              /\ dragState.phase = "idle"
              /\ PendingAndListening(c)
              /\ distanceGE(ctl[c].pendingStart.position, event'.pos, CfgDistance))
             => /\ dragState'.phase = "dragging"
                /\ dragState'.data.id = c
                /\ dragState'.position = event'.pos
                /\ ~ctl'[c].pendingStart.active]_vars

\* C7: with activation {delay: 300, tolerance: 5} and no distance, a move that
\* keeps the pointer within the tolerance of the pick-up point while the timer
\* is armed leaves the controller pending with the timer armed and calls no
\* startDrag; the controller calls startDrag only when its timer fires.
C7_DelayActivation ==
  [][\A c \in Draggables :
       activation[c] = ActDelay
       => /\ (/\ event'.name = "move"
              /\ dragState.phase = "idle"
              /\ PendingAndListening(c)
              /\ ctl[c].pendingStart.timer
              /\ ~distanceGT(ctl[c].pendingStart.position, event'.pos,
                             activation[c].tolerance))
             => /\ ctl'[c].pendingStart.active
                /\ ctl'[c].pendingStart.timer
                /\ timers'[c] = timers[c]
                /\ ~LogHasBy(log', "startDrag", c)
          /\ LogHasBy(log', "startDrag", c) => event'.name = "timer"]_vars

\* C8: while the delay timer of a pending controller is armed, a move that
\* takes the pointer more than tolerance away from the pick-up point cancels
\* the gesture: the timer is cleared, the controller is no longer pending and
\* calls no startDrag; and it calls startDrag later only for a gesture that
\* is pending or just picked up, never for the cancelled one.
C8_ToleranceCancelsPending ==
  [][\A c \in Draggables :
       /\ (/\ event'.name = "move"
           /\ dragState.phase = "idle"
           /\ PendingAndListening(c)
           /\ ctl[c].pendingStart.timer
           /\ distanceGT(ctl[c].pendingStart.position, event'.pos,
                         activation[c].tolerance))
          => /\ ~ctl'[c].pendingStart.active
             /\ ~ctl'[c].isPending
             /\ Len(timers'[c]) < Len(timers[c])
             /\ ~LogHasBy(log', "startDrag", c)
       /\ LogHasBy(log', "startDrag", c)
          => \/ ctl[c].pendingStart.active
             \/ event'.name \in {"pickup", "keydown"} /\ event'.who = c]_vars

\* C9: when a target that is hovered (its isOver is set) is unmounted or its
\* element detached during a drag, it receives onDragLeave in that same step.
C9_UnregisterLeavesAtOnce ==
  [][\A t \in Targets :
       (/\ event'.name \in {"unmountTarget", "detachTarget"}
        /\ event'.who = t
        /\ dragState.isDragging
        /\ zone[t].dropState.isOver)
       => LogHasBy(log', "onDragLeave", t)]_vars

\* C10: a release never invokes onDrop of a target that is not registered
\* (unregistered by unmount or detach, and not registered again since).
C10_UnregisteredNeverDrops ==
  [][\A t \in Targets :
       (event'.name = "release" /\ dropZones[t] = Null)
       => ~LogHasBy(log', "onDrop", t)]_vars

\* C11: end to end.  One item without activation constraints is picked up
\* inside a target that accepts it, moved inside it and released: at the
\* release the target has received exactly one onDragEnter, one onDragOver
\* for every move, exactly one onDrop that carries the payload and the last
\* pointer position, and the coordinator is idle again.
C11_EndToEnd ==
  (event.name = "release")
  => /\ tally.enter = 1
     /\ tally.over = tally.moves
     /\ tally.drop = 1
     /\ \E i \in 1..Len(log) :
          /\ log[i].op = "onDrop" /\ log[i].who = "t1"
          /\ log[i].arg = PayloadOf("b1")
          /\ log[i].pos = tally.last
     /\ dragState = INITIAL_DRAG_STATE

\* the scenario of the claim: pick-up at (50,50), one move to (120,120),
\* release, the payload dropped at (120,120)
C11_Witness ==
  /\ event.name = "release"
  /\ tally.pick = Pt(50, 50)
  /\ tally.moves = 1
  /\ tally.last = Pt(120, 120)
  /\ \E i \in 1..Len(log) :
       log[i].op = "onDrop" /\ log[i].who = "t1" /\ log[i].pos = Pt(120, 120)
  /\ dragState.phase = "idle"

\* C12: in every reachable coordinator state, a dragging state has a pointer
\* position and an initial position, and an idle state has no data, no
\* pointer position, no initial position, no hovered target, and a grab
\* offset and a delta of (0,0).
C12_PhaseInvariant ==
  /\ dragState.phase \in {"idle", "dragging"}
  /\ dragState.isDragging <=> dragState.phase = "dragging"
  /\ dragState.phase = "dragging"
     => /\ dragState.position # NullPoint
        /\ dragState.initialPosition # NullPoint
  /\ dragState.phase = "idle"
     => /\ dragState.data = NoData
        /\ dragState.position = NullPoint
        /\ dragState.initialPosition = NullPoint
        /\ dragState.overDropZoneId = Null
        /\ dragState.offset = Pt(0, 0)
        /\ dragState.delta = Pt(0, 0)

\* the coordinator is idle again after a drag that had moved, with a grab
\* offset, and was released over a hovered target
C12_Witness ==
  /\ dragState.phase = "idle"
  /\ event.name = "release"
  /\ \E i \in 1..Len(log) :
       /\ log[i].op = "drag-end"
       /\ log[i].arg # Null
       /\ log[i].pos # Pt(0, 0)

\* the index of the first entry of lg with operation op, or 0
FirstIndex(lg, op) ==
  LET I == {i \in 1..Len(lg) : lg[i].op = op}
  IN IF I = {} THEN 0 ELSE CHOOSE i \in I : \A j \in I : i <= j

\* C13: the first endDrag of a release acts on the state the release found.
\* When that state is dragging it sends exactly one drag-end, directly, with
\* cancelled = false and dropZoneId = the hovered target id of that state,
\* and the state is idle afterwards; when it is idle nothing is sent and the
\* state stays as it was.
C13_EndDragNotifies ==
  [][(event'.name = "release" /\ LogHas(log', "endDrag"))
     => LET i == FirstIndex(log', "endDrag")
        IN IF dragState.isDragging
           THEN /\ Count(log', "drag-end") = 1
                /\ i < Len(log')
                /\ log'[i + 1].op = "drag-end"
                /\ log'[i + 1].who = dragState.data.id
                /\ log'[i + 1].flag = FALSE
                /\ log'[i + 1].arg = dragState.overDropZoneId
                /\ dragState' = INITIAL_DRAG_STATE
           ELSE /\ Count(log', "drag-end") = 0
                /\ dragState' = dragState
                /\ dragState' = INITIAL_DRAG_STATE]_vars

\* a release ended a drag over a hovered target, and another release called
\* endDrag while the coordinator was idle
C13_Witness ==
  /\ event.name = "release"
  /\ LogHas(log, "endDrag")
  /\ \E i \in 1..Len(log) : log[i].op = "drag-end" /\ log[i].arg = "t1"

C13_WitnessIdle ==
  /\ event.name = "release"
  /\ LogHas(log, "endDrag")
  /\ ~LogHas(log, "drag-end")

\* C14: the first cancelDrag of a step (Escape, touchcancel, unmount of a
\* draggable) acts on the state the step found.  When that state is dragging
\* it sends exactly one drag-end, directly, with cancelled = true and
\* dropZoneId = null whatever the hovered target was, and the state is idle
\* afterwards; when it is idle nothing is sent and nothing changes.
C14_CancelDragNotifies ==
  [][LogHas(log', "cancelDrag")
     => LET i == FirstIndex(log', "cancelDrag")
        IN IF dragState.isDragging
           THEN /\ Count(log', "drag-end") = 1
                /\ i < Len(log')
                /\ log'[i + 1].op = "drag-end"
                /\ log'[i + 1].who = dragState.data.id
                /\ log'[i + 1].flag = TRUE
                /\ log'[i + 1].arg = Null
                /\ dragState' = INITIAL_DRAG_STATE
           ELSE /\ Count(log', "drag-end") = 0
                /\ dragState' = dragState]_vars

\* a drag over a hovered target was cancelled: the target got its leave and
\* the drag-end named no target
C14_Witness ==
  /\ LogHas(log, "cancelDrag")
  /\ LogHasBy(log, "onDragLeave", "t1")
  /\ \E i \in 1..Len(log) :
       log[i].op = "drag-end" /\ log[i].flag /\ log[i].arg = Null

C14_WitnessIdle ==
  /\ LogHas(log, "cancelDrag")
  /\ ~LogHas(log, "drag-end")

\* C15: a move whose handlers call updateDrag(p).  When the coordinator is
\* not dragging nothing changes and no drag-move is sent.  When it is
\* dragging every call sends a drag-move, the pointer position becomes p and
\* the delta p - initialPosition, the data (item id, drag type, payload), the
\* initial position and the grab offset stay, and the hovered target changes
\* only by a target's enter or leave.  In every dragging state
\* delta = position - initialPosition.
C15_UpdateDrag ==
  [][/\ dragState'.isDragging
        => dragState'.delta =
             delta(dragState'.initialPosition, dragState'.position)
     /\ (/\ event'.name = "move"
         /\ LogHas(log', "updateDrag")
         /\ ~LogHas(log', "startDrag"))
        => IF dragState.isDragging
           THEN /\ Count(log', "drag-move") = Count(log', "updateDrag")
                /\ dragState'.position = event'.pos
                /\ dragState'.delta =
                     delta(dragState.initialPosition, event'.pos)
                /\ dragState'.data = dragState.data
                /\ dragState'.initialPosition = dragState.initialPosition
                /\ dragState'.offset = dragState.offset
                /\ dragState'.isDragging
                /\ (dragState'.overDropZoneId # dragState.overDropZoneId
                    => (LogHas(log', "onDragEnter")
                        \/ LogHas(log', "onDragLeave")))
           ELSE /\ ~LogHas(log', "drag-move")
                /\ dragState' = dragState]_vars

\* a drag that was moved away from where it started
C15_Witness ==
  /\ event.name = "move"
  /\ LogHas(log, "drag-move")
  /\ dragState.isDragging
  /\ dragState.delta # Pt(0, 0)
  /\ dragState.offset # Pt(0, 0)

\* updateDrag was called while the coordinator was idle
C15_WitnessIdle ==
  /\ event.name = "move"
  /\ LogHas(log, "updateDrag")
  /\ ~dragState.isDragging

\* C16: updateDrag is idempotent.  A move to p that updated the drag,
\* followed by a second move to the same p, leaves the DragOperation exactly
\* as the first one left it.
C16_UpdateDragIdempotent ==
  [][(/\ event.name = "move" /\ event'.name = "move"
      /\ event'.pos = event.pos
      /\ LogHas(log, "drag-move") /\ ~LogHas(log, "startDrag")
      /\ LogHas(log', "drag-move") /\ ~LogHas(log', "startDrag"))
     => dragState' = dragState]_vars

\* the same position was applied twice to a drag that had started elsewhere
C16_Witness ==
  /\ event.name = "move"
  /\ event.again
  /\ LogHas(log, "drag-move")
  /\ LogHas(log, "onDragOver")
  /\ ~LogHas(log, "onDragEnter")
  /\ dragState.isDragging
  /\ dragState.position = event.pos
  /\ dragState.delta # Pt(0, 0)

\* C17: a keyboard pick-up (Space or Enter) starts the drag at once for every
\* activation configuration: startDrag is called with the element's centre
\* and half extents, and the controller does not become pending.
C17_KeyboardStartsImmediately ==
  [][(event'.name = "keydown")
     => LET c == event'.who
        IN /\ \E i \in 1..Len(log') :
                /\ log'[i].op = "startDrag"
                /\ log'[i].who = c
                /\ log'[i].pos = keyboardPosition
           /\ dragState'.isDragging
           /\ dragState'.data = DragDataOf(c)
           /\ dragState'.offset = keyboardOffset
           /\ ~ctl'[c].pendingStart.active
           /\ ~ctl'[c].isPending]_vars

\* C18: whenever the coordinator is dragging, a mounted draggable controller
\* owns the drag: its ownership flag is set and its id is the active item
\* id.  Unmounting that controller during the drag clears its pending start
\* and its timer and calls cancelDrag, so the coordinator is idle afterwards.
Owned ==
  dragState.isDragging
  => \E c \in Draggables :
       ctl[c].mounted /\ ctl[c].isOurDrag /\ dragState.data.id = c

Alternates(es, over) ==
  \A i \in 1..Len(es) :
    es[i].op = IF over <=> (i % 2 = 1) THEN "onDragLeave" ELSE "onDragEnter"

C19_EnterLeaveAlternate ==
  [][\A t \in Targets :
       /\ Alternates(Edges(log', t), hist[t].over)
       /\ zone'[t].mounted => (zone'[t].dropState.isOver <=> hist'[t].over)]_vars

\* a target was entered, left and entered again during one drag
C19_Witness ==
  \E t \in Targets :
    /\ LogHasBy(log, "onDragEnter", t)
    /\ hist[t].over
    /\ hist[t].outside = FALSE
    /\ event.name = "move"
    /\ dragState.delta = Pt(0, 0)

\* the drag state that target t's controller hovers over before the step
IsOverNow(t) == zone[t].mounted /\ hist[t].over

\* C20: a target that is over (onDragEnter delivered, no onDragLeave yet) and
\* stays mounted receives exactly one onDragLeave, and has its drop state
\* reset, in the step in which the drag ends by release or cancel, or the
\* target is disabled, or the active drag stops being of a type it accepts.
C20_SyntheticLeave ==
  [][\A t \in Targets :
       (/\ IsOverNow(t)
        /\ zone'[t].mounted
        /\ \/ ~dragState'.isDragging
           \/ zone'[t].disabled
           \/ dragState'.data.type \notin AcceptOf(t))
       => /\ CountBy(log', "onDragLeave", t) = 1
          /\ CountBy(log', "onDragEnter", t) = 0
          /\ zone'[t].dropState = INITIAL_DROP_STATE
          /\ ~hist'[t].over]_vars

\* target t1 was disabled while the pointer was inside it
C20_Witness ==
  /\ event.name = "setDisabled"
  /\ dragState.isDragging
  /\ isPositionOver(zone["t1"], dragState.position)
  /\ LogHasBy(log, "onDragLeave", "t1")
  /\ zone["t1"].dropState = INITIAL_DROP_STATE

\* target t1 was left because the drag was replaced by one of a type it
\* does not accept / because the drag was released over it
C20_WitnessType ==
  /\ dragState.isDragging
  /\ dragState.data.type \notin AcceptOf("t1")
  /\ LogHasBy(log, "onDragLeave", "t1")

C20_WitnessRelease ==
  /\ event.name = "release"
  /\ LogHasBy(log, "onDrop", "t1")
  /\ LogHasBy(log, "onDragLeave", "t1")

\* the coordinator's hovered target id is the id of a target whose isOver is
\* true, and it is null exactly when no target is over
HoveredMatchesTargets ==
  /\ dragState.overDropZoneId # Null
     => /\ zone[dragState.overDropZoneId].mounted
        /\ zone[dragState.overDropZoneId].dropState.isOver
  /\ dragState.overDropZoneId = Null
     <=> ~\E t \in Targets : zone[t].mounted /\ zone[t].dropState.isOver

\* C21: once the targets have re-evaluated after an update that moved the
\* pointer out of one target and into another, the coordinator's hovered
\* target id is the id of a target whose isOver is true, and it is null
\* exactly when no target is over.
C21_HoveredAfterHandOver ==
  (/\ event.name = "move"
   /\ LogHas(log, "onDragEnter")
   /\ LogHas(log, "onDragLeave")
   /\ ~LogHas(log, "startDrag"))
  => HoveredMatchesTargets

\* C22: a release invokes onDrop only on the target that is the coordinator's
\* hovered target at the release, so on at most one target.
C22_DropOnlyOnHovered ==
  [][(event'.name = "release")
     => /\ \A t \in Targets :
             LogHasBy(log', "onDrop", t) => dragState.overDropZoneId = t
        /\ Count(log', "onDrop") <= 1]_vars

\* target t is no candidate for the drag state d: it is disabled or does not
\* accept d's drag type
NotCandidate(t, z, d) ==
  d.isDragging /\ (z.disabled \/ d.data.type \notin AcceptOf(t))

\* C23: a target that is disabled, or that does not accept the active drag
\* type, is no candidate whatever the geometry: in every state it is not over
\* and cannot drop, no step makes it the hovered target, and a step that it
\* begins and ends as a non-candidate brings it no onDragEnter, no onDragOver
\* and no onDrop.
C23_NotCandidate ==
  [][\A t \in Targets :
       /\ (zone'[t].mounted /\ NotCandidate(t, zone'[t], dragState'))
          => /\ ~zone'[t].dropState.isOver
             /\ ~zone'[t].dropState.canDrop
             /\ (dragState'.overDropZoneId = t
                 => dragState.overDropZoneId = t)
       /\ (/\ zone[t].mounted /\ zone'[t].mounted
           /\ \/ /\ NotCandidate(t, zone[t], dragState)
                 /\ NotCandidate(t, zone'[t], dragState')
              \/ /\ NotCandidate(t, zone[t], dragState)
                 /\ event'.name \in {"release", "touchcancel", "escape"})
          => /\ ~LogHasBy(log', "onDragEnter", t)
             /\ ~LogHasBy(log', "onDragOver", t)
             /\ ~LogHasBy(log', "onDrop", t)]_vars

\* the pointer of a drag of type "other" is inside t1, which does not accept
\* that type
C23_Witness ==
  /\ dragState.isDragging
  /\ dragState.data.type \notin AcceptOf("t1")
  /\ isPositionOver(zone["t1"], dragState.position)
  /\ zone["t1"].mounted
  /\ event.name = "move"

\* the pointer of a drag is inside the disabled target t1 at a release
C23_WitnessDisabled ==
  /\ event.name = "release"
  /\ zone["t1"].mounted /\ zone["t1"].disabled
  /\ \E i \in 1..Len(log) :
       /\ log[i].op = "handleDrop" /\ log[i].who = "t1"
       /\ isPositionOver(zone["t1"], log[i].pos)

\* C24: a mounted target whose element is not attached reports not-over for
\* every pointer position: while it stays unattached it is not over, it is
\* not the hovered target, and it receives no onDragEnter and no onDrop.
C24_NoRegionNotOver ==
  [][\A t \in Targets :
       (/\ zone[t].mounted /\ zone[t].element = Null
        /\ zone'[t].mounted /\ zone'[t].element = Null)
       => /\ ~LogHasBy(log', "onDragEnter", t)
          /\ ~LogHasBy(log', "onDrop", t)
          /\ ~zone'[t].dropState.isOver
          /\ dragState'.overDropZoneId # t]_vars

HookUses == {"mountDraggable", "mountTarget", "renderOverlay"}

\* C25: rendering a draggable, a drop target or the overlay with no provider
\* around it fails at once with an error and mounts nothing; no other step
\* raises an error, whatever it calls (endDrag or updateDrag on the idle
\* coordinator included).
C25_ErrorOnlyWithoutProvider ==
  [][/\ (event'.name \in HookUses /\ ~provider)
        => /\ log' = <<Entry("error", event'.who, Null, NullPoint, TRUE)>>
           /\ ctl' = ctl /\ zone' = zone /\ dropZones' = dropZones
           /\ dragState' = dragState
     /\ LogHas(log', "error") => (event'.name \in HookUses /\ ~provider)]_vars

\* a hook was used with no provider around it
C25_Witness ==
  /\ ~provider
  /\ event.name \in HookUses
  /\ LogHas(log, "error")

\* endDrag or updateDrag was called on the idle coordinator, without error
C25_WitnessIdleCall ==
  /\ provider
  /\ ~dragState.isDragging
  /\ (LogHas(log, "endDrag") \/ LogHas(log, "updateDrag"))
  /\ ~LogHas(log, "drag-end")
  /\ ~LogHas(log, "drag-move")
  /\ ~LogHas(log, "error")

\* controller c owns the active drag: the coordinator is dragging c's item
OwnsActiveDrag(c) == dragState.isDragging /\ dragState.data.id = c

\* C26: at a release a controller calls endDrag only if its ownership flag
\* is set; a controller that is merely pending, or that does not own the
\* active drag, calls no endDrag, has no pending start and no armed timer
\* afterwards, and when no controller owns the drag the release leaves the
\* DragOperation as it was.
C26_ReleaseEndsOnlyOwnDrag ==
  [][(event'.name = "release")
     => \A c \in Draggables :
          /\ LogHasBy(log', "endDrag", c) => ctl[c].isOurDrag
          /\ (ctl[c].listening /\ ~OwnsActiveDrag(c))
             => /\ ~LogHasBy(log', "endDrag", c)
                /\ ~ctl'[c].pendingStart.active
                /\ ~ctl'[c].isPending
                /\ (ctl[c].pendingStart.timer
                    => Len(timers'[c]) < Len(timers[c]))
          /\ (\A k \in Draggables : ~OwnsActiveDrag(k))
             => dragState' = dragState]_vars

\* C27: a controller's global move / release / cancel listeners are attached
\* exactly while it is mounted and has a pending start or its item is the
\* one being dragged.
C27_ListenersWhilePendingOrDragging ==
  \A c \in Draggables :
    ctl[c].listening
    <=> /\ ctl[c].mounted
        /\ \/ ctl[c].pendingStart.active
           \/ dragState.isDragging /\ dragState.data.id = c

\* C27, after termination: after a release, a cancel, Escape or an unmount
\* a controller that is neither pending nor dragging has no listener left
C27_Witness ==
  /\ event.name \in {"release", "touchcancel", "escape", "unmountDraggable"}
  /\ \E i \in 1..Len(log) : log[i].op = "drag-end"
  /\ \A c \in Draggables : ~ctl[c].listening

\* C28: a delay timer that fires while its controller is pending makes the
\* controller call startDrag with the pick-up position as initial position
\* and the pick-up grab offset, become the owner and stop being pending; a
\* timer that fires while the controller is not pending starts nothing.
C28_TimerPromotesPending ==
  [][(event'.name = "timer")
     => LET c == event'.who
        IN IF ctl[c].pendingStart.active
           THEN /\ LogHasBy(log', "startDrag", c)
                /\ dragState'.isDragging
                /\ dragState'.data = DragDataOf(c)
                /\ dragState'.initialPosition = ctl[c].pendingStart.position
                /\ dragState'.position = ctl[c].pendingStart.position
                /\ dragState'.offset = ctl[c].pendingStart.offset
                /\ ctl'[c].isOurDrag
                /\ ~ctl'[c].pendingStart.active
                /\ ~ctl'[c].isPending
           ELSE /\ ~LogHas(log', "startDrag")
                /\ dragState' = dragState
                /\ ctl'[c] = ctl[c]]_vars

RegistryEvents == {"mountTarget", "unmountTarget", "detachTarget", "attachTarget"}

\* C30: a step that registers or unregisters target X (mount, unmount,
\* attach or detach of its element), during a drag or not, leaves every other
\* target's drop state as it was, calls no onDragEnter, onDragLeave or onDrop
\* of another target, and leaves the phase, the positions, the grab offset,
\* the delta and the data of the DragOperation as they were.
C30_RegistryFrame ==
  [][(event'.name \in RegistryEvents)
     => /\ \A u \in Targets \ {event'.who} :
             /\ zone'[u] = zone[u]
             /\ dropZones'[u] = dropZones[u]
             /\ ~LogHasBy(log', "onDragEnter", u)
             /\ ~LogHasBy(log', "onDragLeave", u)
             /\ ~LogHasBy(log', "onDrop", u)
        /\ dragState'.phase = dragState.phase
        /\ dragState'.isDragging = dragState.isDragging
        /\ dragState'.data = dragState.data
        /\ dragState'.position = dragState.position
        /\ dragState'.initialPosition = dragState.initialPosition
        /\ dragState'.offset = dragState.offset
        /\ dragState'.delta = dragState.delta]_vars

\* target t1 was unregistered during a drag while the other target t2 was
\* over
C30_Witness ==
  /\ event.name \in {"unmountTarget", "detachTarget"}
  /\ event.who = "t1"
  /\ dragState.isDragging
  /\ zone["t2"].dropState.isOver
  /\ dropZones["t1"] = Null

\* target t1 was registered under the pointer during a drag
C30_WitnessRegister ==
  /\ event.name \in {"mountTarget", "attachTarget"}
  /\ event.who = "t1"
  /\ dragState.isDragging
  /\ zone["t2"].dropState.isOver
  /\ dropZones["t1"] # Null
  /\ isPositionOver(zone["t1"], dragState.position)

\* the elements registered in the registry checks
RegistryElements == {"e1", "e2"}

\* C31: the registry is a map keyed by id.  In every reachable state,
\* unregistering an id twice gives what unregistering it once gives,
\* unregistering an id that is not registered changes nothing, and
\* registering an id again binds it to the element registered last, every
\* other entry staying as it was.  The steps that unregister (unmount,
\* detach) and register (mount, attach) a target change the registry so.
C31_RegistryIsMap ==
  [][/\ \A id \in Targets :
          LET once == unregisterDropZone(Cur, id)
              twice == unregisterDropZone(once, id)
          IN /\ twice.dropZones = once.dropZones
             /\ once.dropZones[id] = Null
             /\ \A u \in Targets \ {id} : once.dropZones[u] = dropZones[u]
             /\ dropZones[id] = Null => once.dropZones = dropZones
     /\ \A id \in Targets, e1 \in RegistryElements, e2 \in RegistryElements :
          LET first == registerDropZone(Cur, id, e1)
              second == registerDropZone(first, id, e2)
          IN /\ second.dropZones[id] = e2
             /\ second.dropZones = registerDropZone(Cur, id, e2).dropZones
             /\ \A u \in Targets \ {id} : second.dropZones[u] = dropZones[u]
     /\ event'.name \in {"unmountTarget", "detachTarget"}
        => dropZones' = [dropZones EXCEPT ![event'.who] = Null]
     /\ event'.name \in {"mountTarget", "attachTarget"}
        => dropZones' = [dropZones EXCEPT ![event'.who] = zone'[event'.who].element]
    ]_vars

\* a target that was detached (unregistered) was unmounted (unregistered
\* again) while the other target stayed registered
C31_Witness ==
  /\ event.name = "unmountTarget"
  /\ dropZones["t1"] = Null
  /\ dropZones["t2"] # Null
  /\ ~zone["t1"].mounted

\* C32: setOverDropZone(id), applied to any reachable DragOperation, changes
\* the hovered target id only; when id is the hovered target id already the
\* state is the same and nothing re-renders.  A step that changes the
\* hovered target id and calls no startDrag, updateDrag, endDrag or
\* cancelDrag leaves the other fields as they were.
C32_SetHoveredFrame ==
  [][/\ \A id \in Targets \cup {Null} :
          LET s1 == setOverDropZone(Cur, id)
          IN /\ s1.drag = [dragState EXCEPT !.overDropZoneId = id]
             /\ [s1 EXCEPT !.drag = dragState] = Cur
             /\ dragState.overDropZoneId = id => s1 = Cur
     /\ (/\ dragState'.overDropZoneId # dragState.overDropZoneId
         /\ ~LogHas(log', "startDrag") /\ ~LogHas(log', "drag-move")
         /\ ~LogHas(log', "drag-end"))
        => dragState' =
             [dragState EXCEPT !.overDropZoneId = dragState'.overDropZoneId]
    ]_vars

\* a step changed the hovered target id of a drag in progress and nothing
\* else: target t1 was mounted under the pointer, or disabled
C32_Witness ==
  /\ event.name \in {"mountTarget", "attachTarget", "setDisabled"}
  /\ dragState.isDragging
  /\ dragState.delta # Pt(0, 0)
  /\ (LogHasBy(log, "onDragEnter", "t1") \/ LogHasBy(log, "onDragLeave", "t1"))

\* C33: the coordinator's phase is idle or dragging and nothing else; in
\* every state phase = dragging, isDragging and data being present are
\* equivalent; a step that takes the coordinator from idle to dragging is a
\* startDrag; startDrag applied to an idle coordinator gives phase
\* dragging, initialPosition = position = the start position, delta = (0,0)
\* and no hovered target; and a step whose last coordinator call is
\* startDrag ends with that state, the hovered target being null or a target
\* whose effect reported an enter in the same step.
C33_PhaseAndStart ==
  [][/\ dragState'.phase \in {"idle", "dragging"}
     /\ (dragState'.phase = "dragging") <=> dragState'.isDragging
     /\ dragState'.isDragging <=> (dragState'.data # NoData)
     /\ (dragState.phase = "idle" /\ dragState'.phase = "dragging")
        => LogHas(log', "startDrag")
     /\ (/\ LogHas(log', "startDrag")
         /\ LastIndex(log', "startDrag") > LastIndex(log', "drag-move")
         /\ LastIndex(log', "startDrag") > LastIndex(log', "endDrag")
         /\ LastIndex(log', "startDrag") > LastIndex(log', "cancelDrag"))
        => LET e == log'[LastIndex(log', "startDrag")]
           IN /\ dragState'.phase = "dragging"
              /\ dragState'.data = DragDataOf(e.who)
              /\ dragState'.initialPosition = e.pos
              /\ dragState'.position = e.pos
              /\ dragState'.delta = Pt(0, 0)
              /\ (dragState.phase = "idle"
                  => \/ dragState'.overDropZoneId = Null
                     \/ LogHasBy(log', "onDragEnter",
                                 dragState'.overDropZoneId))
     /\ dragState.phase = "idle"
        => \A c \in Draggables, p \in PointerPositions :
             LET d == startDrag(Cur, DragDataOf(c), p, Pt(0, 0)).drag
             IN /\ d.phase = "dragging" /\ d.isDragging
                /\ d.data = DragDataOf(c)
                /\ d.initialPosition = p /\ d.position = p
                /\ d.delta = Pt(0, 0)
                /\ d.overDropZoneId = Null]_vars

\* a startDrag took the idle coordinator to dragging, over no target
C33_Witness ==
  /\ event.name \in {"pickup", "keydown", "move", "timer"}
  /\ LogHas(log, "startDrag")
  /\ dragState.phase = "dragging"
  /\ dragState.overDropZoneId = Null
  /\ dragState.position = dragState.initialPosition

\* C34: a controller's ownership flag is set only while the coordinator is
\* dragging that controller's item: in every reachable state a set flag
\* implies that a drag is active and carries the controller's id.
C34_FlagFollowsCoordinator ==
  \A c \in Draggables : ctl[c].isOurDrag => OwnsActiveDrag(c)

\* C35: unmounting a controller whose item is not the one being dragged
\* leaves the DragOperation as it was, calls no cancelDrag and sends no
\* drag-end; a drag in progress for another item survives the unmount.
C35_UnmountOfNonOwnerIsSilent ==
  [][(event'.name = "unmountDraggable" /\ ~OwnsActiveDrag(event'.who))
     => /\ dragState' = dragState
        /\ ~LogHas(log', "cancelDrag")
        /\ ~LogHas(log', "drag-end")]_vars

\* the item whose drag-start is unmatched after the entries i..Len(lg) of lg,
\* given the one unmatched before them (Null for none); "broken" when a
\* drag-start meets an unmatched drag-start or a drag-end meets none, or one
\* of another item
RECURSIVE Unmatched(_, _, _)
Unmatched(lg, i, open) ==
  IF open = "broken" \/ i > Len(lg) THEN open
  ELSE IF lg[i].op = "drag-start"
       THEN Unmatched(lg, i + 1, IF open = Null THEN lg[i].who ELSE "broken")
       ELSE IF lg[i].op = "drag-end"
            THEN Unmatched(lg, i + 1,
                           IF open = lg[i].who THEN Null ELSE "broken")
            ELSE Unmatched(lg, i + 1, open)

DraggedItem(d) == IF d.isDragging THEN d.data.id ELSE Null

\* C36: drag-start and drag-end notifications alternate.  The item with an
\* unmatched drag-start is the one the coordinator is dragging; within every
\* step a drag-start is sent only when no drag-start is unmatched, a drag-end
\* only for the item whose drag-start is unmatched, and the step ends with
\* the coordinator dragging exactly the item left unmatched.
C36_StartEndAlternate ==
  [][Unmatched(log', 1, DraggedItem(dragState)) = DraggedItem(dragState')]_vars

\* C37: in every reachable state the hovered target id is null or the id of
\* a registered drop target, and a drag-end names null or a target that is
\* registered when the drag ends.
C37_HoveredIsRegistered ==
  [][/\ dragState'.overDropZoneId # Null
        => dropZones'[dragState'.overDropZoneId] # Null
     /\ \A i \in 1..Len(log') :
          (log'[i].op = "drag-end" /\ log'[i].arg # Null)
          => dropZones[log'[i].arg] # Null]_vars

\* C38: every onDrop is invoked during an active drag, with the payload of
\* the item being dragged (the one given to that drag's startDrag) and with
\* the coordinator's pointer position as startDrag or the last updateDrag of
\* that drag left it; the position is never null.
C38_DropArguments ==
  [][\A i \in 1..Len(log') :
       log'[i].op = "onDrop"
       => /\ dragState.isDragging
          /\ log'[i].arg = dragState.data.payload
          /\ log'[i].arg = PayloadOf(dragState.data.id)
          /\ log'[i].pos = dragState.position
          /\ log'[i].pos # NullPoint]_vars

\* a drop on t2 of an item that was moved after its pick-up
C38_Witness ==
  /\ event.name = "release"
  /\ \E i \in 1..Len(log) :
       /\ log[i].op = "onDrop" /\ log[i].who = "t2"
       /\ log[i].pos = Pt(9, 0)
       /\ \E j \in 1..Len(log) : log[j].op = "drag-end" /\ log[j].pos = log[i].pos

\* C39: a controller is never pending and owner at the same time, and a
\* delay timer of a controller is scheduled only while that controller is
\* pending.
C39_PendingExcludesOwner ==
  \A c \in Draggables :
    /\ ctl[c].pendingStart.active => ~ctl[c].isOurDrag
    /\ timers[c] # <<>> => ctl[c].pendingStart.active

\* the unit squares of the integer grid that lie inside rectangle r
Cells(r) ==
  {c \in Coords \X Coords :
     /\ r.left <= c[1] /\ c[1] + 1 <= r.right
     /\ r.top <= c[2] /\ c[2] + 1 <= r.bottom}

\* pt lies on an edge of rectangle r
OnBoundary(pt, r) ==
  \/ pt.x \in {r.left, r.right} /\ r.top <= pt.y /\ pt.y <= r.bottom
  \/ pt.y \in {r.top, r.bottom} /\ r.left <= pt.x /\ pt.x <= r.right

\* C40: for bounding boxes a and b with integer coordinates,
\* intersectionRatio(a, b) is intersectionArea(a, b) divided by the area of
\* a, is 0 when a has no area, and lies between 0 and 1; intersectionArea
\* gives the same for (a, b) and (b, a) and is 0 when the rectangles do not
\* intersect or share no unit square (they are disjoint or touch along an
\* edge or in a corner); isPointInRect holds for every point on an edge of
\* the rectangle.
C40_Geometry ==
  /\ geom.op = "measure"
     => LET aArea == Cardinality(Cells(geom.a))
            common == Cells(geom.a) \cap Cells(geom.b)
        IN /\ geom.ratio.den > 0
           /\ IF aArea = 0
              THEN geom.ratio.num = 0
              ELSE geom.ratio.num * aArea = geom.area * geom.ratio.den
           /\ 0 <= geom.ratio.num /\ geom.ratio.num <= geom.ratio.den
           /\ geom.swapped = geom.area
           /\ ~geom.intersects => geom.area = 0
           /\ common = {} => geom.area = 0
           /\ geom.area = Cardinality(common)
  /\ geom.op = "probe"
     => (OnBoundary(geom.pt, geom.a) => geom.inside)

\* two rectangles with area that touch along an edge were measured
C40_Witness ==
  /\ geom.op = "measure"
  /\ geom.intersects
  /\ geom.area = 0
  /\ Cells(geom.a) # {} /\ Cells(geom.b) # {}
  /\ geom.a.right = geom.b.left

\* a is partly covered by b
C40_WitnessRatio ==
  /\ geom.op = "measure"
  /\ 0 < geom.ratio.num /\ geom.ratio.num < geom.ratio.den

\* a point on the right edge of a rectangle with area was probed
C40_WitnessBoundary ==
  /\ geom.op = "probe"
  /\ Cells(geom.a) # {}
  /\ geom.pt.x = geom.a.right
  /\ geom.inside

====
